---- MODULE Spec2Model ----
(***************************************************************************)
(* One invocation of the `license` command of pywidevine                   *)
(* (src/pywidevine/main.py, license_): load a device, create a Cdm         *)
(* session, optionally fetch and set a service certificate, create the    *)
(* license challenge, post it, parse the licence and log the keys.         *)
(*                                                                         *)
(* The orchestration is translated from main.py.  Device, Cdm and the     *)
(* HTTP server are collaborators whose code is not in main.py: Device and  *)
(* Cdm follow the contracts of spec.md section 4.1/4.2, the server answers *)
(* every POST with some status and some body.                              *)
(***************************************************************************)
EXTENDS Integers, Sequences, FiniteSets, TLC

VARIABLES
    device,       \* argument DEVICE (a path), then the loaded Device
    pssh,         \* argument PSSH
    server,       \* argument SERVER
    type_,        \* option --type
    raw,          \* option --raw
    privacy,      \* option --privacy
    pc,           \* position of license_ in its flow
    cdm,          \* the Cdm session (None before line 71)
    service_cert, \* local service_cert: the response, then its content
    challenge,    \* local challenge
    licence,      \* local licence: the response, then its content
    keys,         \* local keys
    idx,          \* position of the `for key in keys` loop
    calls,        \* history: capability calls and POSTs, in program order
    log,          \* records emitted by log.info / log.error
    exc,          \* the exception that ended the invocation, or "None"
    path          \* history: the positions pc has taken, in order

vars == <<device, pssh, server, type_, raw, privacy, pc, cdm, service_cert,
          challenge, licence, keys, idx, calls, log, exc, path>>

----------------------------------------------------------------------------
(* Bounds *)

\* response bodies are the byte strings numbered 0..MaxBody
MaxBody == 4

\* the status a POST must return for the flow to go on
HTTP_OK == 200

Statuses == {HTTP_OK, 403, 500}
Bodies == 0..MaxBody
\* a pathlib.Path
Path(name) == [kind |-> "Path", name |-> name]

DevicePaths == {Path("test.dev"), Path("missing.dev")}
PsshValues == {"AAAA", "not-a-pssh"}
Servers == {"http://svc/license", "http://other/license"}
LicenseTypes == {"STREAMING", "OFFLINE", "AUTOMATIC"}

None == [kind |-> "None"]

Bytes(b) == [kind |-> "bytes", b |-> b]

Response(status, b) == [kind |-> "Response", status_code |-> status, content |-> Bytes(b)]

----------------------------------------------------------------------------
(* Collaborators: Device and Cdm (contracts of spec.md 4.1 and 4.2) *)

\* Device.load(location): the Device, or DeviceLoadError
DeviceLoad(location) ==
    IF location = Path("test.dev")
    THEN [ok |-> TRUE, ret |-> [kind |-> "Device", system_id |-> 4464, security_level |-> 3]]
    ELSE [ok |-> FALSE, ret |-> None]

\* Cdm.service_certificate_challenge: the request for the service certificate
ServiceCertificateChallenge == [kind |-> "ServiceCertificateRequest"]

\* Cdm(device, pssh, type_, raw): the session, or InvalidContentIdError
CdmCreate(dev, p, t, r) ==
    IF p = "AAAA"
    THEN [ok |-> TRUE,
          ret |-> [kind |-> "Cdm", device |-> dev, pssh |-> p, type |-> t, raw |-> r,
                   service_certificate_challenge |-> ServiceCertificateChallenge,
                   service_certificate |-> None]]
    ELSE [ok |-> FALSE, ret |-> None]

\* a certificate the session refuses (InvalidCertificateError)
CertificateMalformed(cert) == cert.b = 0

\* cdm.set_service_certificate(cert): the session with the certificate set, or a failure
CdmSetServiceCertificate(c, cert) ==
    IF CertificateMalformed(cert)
    THEN [ok |-> FALSE, ret |-> c]
    ELSE [ok |-> TRUE, ret |-> [c EXCEPT !.service_certificate = cert]]

CdmGetLicenseChallenge_SilentFallback(c, privacy_mode) ==
    [ok |-> TRUE,
     ret |-> [kind |-> "LicenseRequest", pssh |-> c.pssh, type |-> c.type, raw |-> c.raw,
              encrypted_for |-> c.service_certificate]]

\* cdm.get_license_challenge(privacy_mode): the challenge, or PrivacyModeUnavailableError
CdmGetLicenseChallenge(c, privacy_mode) ==
    IF privacy_mode /\ c.service_certificate = None
    THEN [ok |-> FALSE, ret |-> None]
    ELSE [ok |-> TRUE,
          ret |-> [kind |-> "LicenseRequest", pssh |-> c.pssh, type |-> c.type,
                   raw |-> c.raw,
                   encrypted_for |-> IF privacy_mode THEN c.service_certificate ELSE None]]

KeyTable ==
    << [type |-> "CONTENT", kid |-> <<17, 34>>, key |-> <<170, 187>>],
       [type |-> "SIGNING", kid |-> <<51, 0>>, key |-> <<15>>] >>

\* the keys held by licence body b (body 0 is malformed, body 1 holds no key,
\* body 2 holds the single key CONTENT 1122:aabb)
LicenseKeys(b) == [i \in 1..(b - 1) |-> KeyTable[((b + i + 1) % 2) + 1]]

\* cdm.parse_license(licence): the keys in parse order, or LicenseParseError
CdmParseLicense(c, lic) ==
    IF lic.b = 0
    THEN [ok |-> FALSE, ret |-> <<>>]
    ELSE [ok |-> TRUE, ret |-> LicenseKeys(lic.b)]

----------------------------------------------------------------------------
(* Formatting *)

HexDigits == <<"0", "1", "2", "3", "4", "5", "6", "7",
               "8", "9", "a", "b", "c", "d", "e", "f">>

\* bytes.hex(): two lower-case digits per byte
RECURSIVE Hex(_)
Hex(bs) ==
    IF bs = <<>> THEN <<>>
    ELSE <<HexDigits[(Head(bs) \div 16) + 1], HexDigits[(Head(bs) % 16) + 1]>> \o Hex(Tail(bs))

KeyLine_Swapped(k) == <<"[", k.type, "]", " ">> \o Hex(k.key) \o <<":">> \o Hex(k.kid)

\* f"[{key.type}] {key.kid.hex}:{key.key.hex()}"
KeyLine(k) == <<"[", k.type, "]", " ">> \o Hex(k.kid) \o <<":">> \o Hex(k.key)

\* response.text: the body decoded
Text(content) == [kind |-> "str", of |-> content.b]

----------------------------------------------------------------------------
(* Decisions of license_ *)

WantsCertificate_Always == TRUE

\* line 75: if privacy
WantsCertificate == privacy

CertFetchFailed_Unchecked(resp) == FALSE

CertFetchFailed_OnlyServerErrors(resp) == resp.status_code >= 500

\* line 81: service_cert.status_code != 200
CertFetchFailed(resp) == resp.status_code # HTTP_OK

\* line 90: the privacy_mode argument of get_license_challenge
PrivacyModeArg == TRUE

CertRequestBody_Challenge == challenge

\* line 79: data=cdm.service_certificate_challenge
CertRequestBody == cdm.service_certificate_challenge

LicenseRequestBody_CertChallenge == cdm.service_certificate_challenge

\* line 97: data=challenge
LicenseRequestBody == challenge

LicenceFetchFailed_Unchecked(resp) == FALSE

LicenceFetchFailed_Inverted(resp) == resp.status_code = HTTP_OK

\* line 99: licence.status_code != 200
LicenceFetchFailed(resp) == resp.status_code # HTTP_OK

OnCertFetchFailed_Retry == "SESSION_READY"

\* line 83: return
OnCertFetchFailed == "ABORTED_TRANSPORT"

OnLicenceFetchFailed_Retry == "CHALLENGE_READY"

\* line 101: return
OnLicenceFetchFailed == "ABORTED_TRANSPORT"

\* line 102, 107: licence = licence.content; cdm.parse_license(licence)
LicenceContent(resp) == resp.content

AfterCall_RetryCertificate(ok, next) ==
    IF ok THEN next ELSE IF next = "CERT_SET" THEN "CERT_FETCHED" ELSE "RAISED"

AfterCall_SwallowedOnceSessionReady(ok, next) ==
    IF ok \/ next \notin {"DEVICE_LOADED", "SESSION_READY"} THEN next ELSE "RAISED"

\* lines 66-107: no try/except, so an exception of a capability call ends the invocation
AfterCall(ok, next) == IF ok THEN next ELSE "RAISED"

Call(op, arg, r) == [op |-> op, arg |-> arg, ok |-> r.ok, ret |-> r.ret]

Post(site, url, data, resp) ==
    [op |-> site, arg |-> [url |-> url, data |-> data], ok |-> TRUE, ret |-> resp]

Info(msg) == [level |-> "info", msg |-> msg]
Error(msg) == [level |-> "error", msg |-> msg]

\* line 82: the record of the failed certificate fetch
CertFailureRecord(resp) ==
    Error(<<"[-] Failed to get Service Privacy Certificate", resp.status_code, Text(resp.content)>>)

LicenceFailureRecord_StatusOnly(resp) ==
    Error(<<"[-] Failed to send challenge", resp.status_code>>)

\* line 100: the record of the failed license fetch
LicenceFailureRecord(resp) ==
    Error(<<"[-] Failed to send challenge", resp.status_code, Text(resp.content)>>)

----------------------------------------------------------------------------
Init ==
    /\ device \in DevicePaths
    /\ pssh \in PsshValues
    /\ server \in Servers
    /\ type_ \in LicenseTypes
    /\ raw \in BOOLEAN
    /\ privacy \in BOOLEAN
    /\ pc = "START"
    /\ cdm = None
    /\ service_cert = None
    /\ challenge = None
    /\ licence = None
    /\ keys = <<>>
    /\ idx = 1
    /\ calls = <<>>
    /\ log = <<>>
    /\ exc = "None"
    /\ path = <<"START">>

\* lines 65-68
LoadDevice ==
    /\ pc = "START"
    /\ LET r == DeviceLoad(device) IN
       /\ calls' = Append(calls, Call("Device.load", device, r))
       /\ pc' = AfterCall(r.ok, "DEVICE_LOADED")
       /\ IF r.ok
          THEN /\ device' = r.ret
               /\ log' = Append(log, Info(<<"[+] Loaded Device", r.ret.system_id, r.ret.security_level>>))
               /\ exc' = exc
          ELSE /\ exc' = "DeviceLoadError"
               /\ UNCHANGED <<device, log>>
    /\ UNCHANGED <<pssh, server, type_, raw, privacy, cdm, service_cert, challenge,
                   licence, keys, idx>>
    /\ path' = Append(path, pc')

\* lines 70-73
LoadCdm ==
    /\ pc = "DEVICE_LOADED"
    /\ LET r == CdmCreate(device, pssh, type_, raw) IN
       /\ calls' = Append(calls, Call("Cdm", [pssh |-> pssh, type |-> type_, raw |-> raw], r))
       /\ pc' = AfterCall(r.ok, "SESSION_READY")
       /\ IF r.ok
          THEN /\ cdm' = r.ret
               /\ log' = Append(log, Info(<<"[+] Loaded CDM with PSSH", pssh>>))
               /\ exc' = exc
          ELSE /\ exc' = "InvalidContentIdError"
               /\ UNCHANGED <<cdm, log>>
    /\ UNCHANGED <<device, pssh, server, type_, raw, privacy, service_cert, challenge,
                   licence, keys, idx>>
    /\ path' = Append(path, pc')

\* lines 75-80: the certificate POST and its response
PostCertChallenge ==
    /\ pc = "SESSION_READY"
    /\ WantsCertificate
    /\ \E status \in Statuses, b \in Bodies :
          LET resp == Response(status, b) IN
          /\ service_cert' = resp
          /\ calls' = Append(calls, Post("post_cert", server, CertRequestBody, resp))
    /\ pc' = "CERT_PENDING"
    /\ UNCHANGED <<device, pssh, server, type_, raw, privacy, cdm, challenge, licence,
                   keys, idx, log, exc>>
    /\ path' = Append(path, pc')

\* lines 81-84
CheckCertStatus ==
    /\ pc = "CERT_PENDING"
    /\ IF CertFetchFailed(service_cert)
       THEN /\ log' = Append(log, CertFailureRecord(service_cert))
            /\ pc' = OnCertFetchFailed
            /\ UNCHANGED service_cert
       ELSE /\ service_cert' = service_cert.content
            /\ pc' = "CERT_FETCHED"
            /\ UNCHANGED log
    /\ UNCHANGED <<device, pssh, server, type_, raw, privacy, cdm, challenge, licence,
                   keys, idx, calls, exc>>
    /\ path' = Append(path, pc')

\* lines 85-87
SetServiceCertificate ==
    /\ pc = "CERT_FETCHED"
    /\ LET r == CdmSetServiceCertificate(cdm, service_cert) IN
       /\ calls' = Append(calls, [op |-> "set_service_certificate", arg |-> service_cert,
                                  ok |-> r.ok, ret |-> None])
       /\ pc' = AfterCall(r.ok, "CERT_SET")
       /\ cdm' = r.ret
       /\ IF r.ok
          THEN /\ log' = Append(log, Info(<<"[+] Set Service Privacy Certificate">>))
               /\ exc' = exc
          ELSE /\ exc' = "InvalidCertificateError"
               /\ UNCHANGED log
    /\ UNCHANGED <<device, pssh, server, type_, raw, privacy, service_cert, challenge,
                   licence, keys, idx>>
    /\ path' = Append(path, pc')

\* lines 89-92
GetLicenseChallenge ==
    /\ \/ pc = "SESSION_READY" /\ ~WantsCertificate
       \/ pc = "CERT_SET"
    /\ LET r == CdmGetLicenseChallenge(cdm, PrivacyModeArg) IN
       /\ calls' = Append(calls, Call("get_license_challenge", PrivacyModeArg, r))
       /\ pc' = AfterCall(r.ok, "CHALLENGE_READY")
       /\ IF r.ok
          THEN /\ challenge' = r.ret
               /\ log' = Append(log, Info(<<"[+] Created License Request Message (Challenge)">>))
               /\ exc' = exc
          ELSE /\ exc' = "PrivacyModeUnavailableError"
               /\ UNCHANGED <<challenge, log>>
    /\ UNCHANGED <<device, pssh, server, type_, raw, privacy, cdm, service_cert,
                   licence, keys, idx>>
    /\ path' = Append(path, pc')

\* lines 94-98: the licence POST and its response
PostChallenge ==
    /\ pc = "CHALLENGE_READY"
    /\ \E status \in Statuses, b \in Bodies :
          LET resp == Response(status, b) IN
          /\ licence' = resp
          /\ calls' = Append(calls, Post("post_license", server, LicenseRequestBody, resp))
    /\ pc' = "LICENSE_PENDING"
    /\ UNCHANGED <<device, pssh, server, type_, raw, privacy, cdm, service_cert,
                   challenge, keys, idx, log, exc>>
    /\ path' = Append(path, pc')

\* lines 99-104
CheckLicenceStatus ==
    /\ pc = "LICENSE_PENDING"
    /\ IF LicenceFetchFailed(licence)
       THEN /\ log' = Append(log, LicenceFailureRecord(licence))
            /\ pc' = OnLicenceFetchFailed
            /\ UNCHANGED licence
       ELSE /\ licence' = LicenceContent(licence)
            /\ log' = Append(log, Info(<<"[+] Got License Message">>))
            /\ pc' = "LICENSE_FETCHED"
    /\ UNCHANGED <<device, pssh, server, type_, raw, privacy, cdm, service_cert,
                   challenge, keys, idx, calls, exc>>
    /\ path' = Append(path, pc')

\* lines 106-108
ParseLicense ==
    /\ pc = "LICENSE_FETCHED"
    /\ LET r == CdmParseLicense(cdm, licence) IN
       /\ calls' = Append(calls, Call("parse_license", licence, r))
       /\ pc' = AfterCall(r.ok, "KEYS_PARSED")
       /\ IF r.ok
          THEN /\ keys' = r.ret
               /\ log' = Append(log, Info(<<"[+] License Parsed Successfully">>))
               /\ exc' = exc
          ELSE /\ exc' = "LicenseParseError"
               /\ UNCHANGED <<keys, log>>
    /\ UNCHANGED <<device, pssh, server, type_, raw, privacy, cdm, service_cert,
                   challenge, licence, idx>>
    /\ path' = Append(path, pc')

\* lines 110-112: one iteration of the loop
PrintKey ==
    /\ pc = "KEYS_PARSED"
    /\ idx <= Len(keys)
    /\ log' = Append(log, Info(KeyLine(keys[idx])))
    /\ idx' = idx + 1
    /\ UNCHANGED <<device, pssh, server, type_, raw, privacy, pc, cdm, service_cert,
                   challenge, licence, keys, calls, exc, path>>

\* the loop is exhausted and license_ returns
Return ==
    /\ pc = "KEYS_PARSED"
    /\ idx > Len(keys)
    /\ pc' = "DONE"
    /\ UNCHANGED <<device, pssh, server, type_, raw, privacy, cdm, service_cert,
                   challenge, licence, keys, idx, calls, log, exc>>
    /\ path' = Append(path, pc')

Next ==
    \/ LoadDevice
    \/ LoadCdm
    \/ PostCertChallenge
    \/ CheckCertStatus
    \/ SetServiceCertificate
    \/ GetLicenseChallenge
    \/ PostChallenge
    \/ CheckLicenceStatus
    \/ ParseLicense
    \/ PrintKey
    \/ Return

Spec == Init /\ [][Next]_vars

\* one synchronous thread: a step that can be taken is taken
FairSpec == Spec /\ WF_vars(Next)

----------------------------------------------------------------------------
(* Reading the history *)

Terminated == pc \in {"DONE", "ABORTED_TRANSPORT", "RAISED"}

CallsOf(op) == {i \in DOMAIN calls : calls[i].op = op}

Count(op) == Cardinality(CallsOf(op))

IsPost(c) == c.op \in {"post_cert", "post_license"}

\* the network exchanges of the invocation, in order
Exchanges == SelectSeq(calls, IsPost)

ExchangeOps == [i \in DOMAIN Exchanges |-> Exchanges[i].op]

ExpectedExchanges == IF privacy THEN <<"post_cert", "post_license">> ELSE <<"post_license">>

IsPrefix(s, t) == Len(s) <= Len(t) /\ s = SubSeq(t, 1, Len(s))

IsKeyLine(r) == r.level = "info" /\ r.msg[1] = "["

\* the key lines emitted so far, in order
KeyLines == SelectSeq(log, IsKeyLine)

\* the positions taken, without the two waits for a response
IsSpecState(p) == p \notin {"CERT_PENDING", "LICENSE_PENDING"}

SpecPath == SelectSeq(path, IsSpecState)

----------------------------------------------------------------------------
(* Claims *)

\* C1 (as stated): every finished invocation made exactly one exchange, the
\* license fetch, when privacy is false, and exactly the certificate fetch then
\* the license fetch when privacy is true.
C1_ExactExchanges == Terminated => ExchangeOps = ExpectedExchanges

\* C1 (amended): the exchanges made are always a prefix of the expected sequence
\* (license fetch alone without privacy; certificate fetch then license fetch
\* with privacy), and an invocation that ends DONE made exactly that sequence.
C1_ExchangesPrefix ==
    /\ IsPrefix(ExchangeOps, ExpectedExchanges)
    /\ pc = "DONE" => ExchangeOps = ExpectedExchanges

C1_Witness == pc = "DONE" /\ privacy /\ ExchangeOps = <<"post_cert", "post_license">>

\* C2: the privacy_mode argument of every get_license_challenge call equals the
\* caller's --privacy flag.
C2_PrivacyFlagPassedThrough ==
    \A i \in CallsOf("get_license_challenge") : calls[i].arg = privacy

\* C3: without privacy, once the device is loaded and the session created, and
\* whenever no licence exchange returns a non-200 status and no parse fails, a
\* finished invocation went SESSION_READY, CHALLENGE_READY, LICENSE_FETCHED,
\* KEYS_PARSED, DONE with no certificate step and logged one line per parsed key
\* (for the licence holding the one key CONTENT 1122:aabb, exactly that line).
C3_NonPrivacyFlow ==
    ( /\ Terminated
      /\ ~privacy
      /\ \A i \in CallsOf("Device.load") \cup CallsOf("Cdm") : calls[i].ok
      /\ \A i \in CallsOf("post_license") : calls[i].ret.status_code = HTTP_OK
      /\ \A i \in CallsOf("parse_license") : calls[i].ok )
    => /\ SpecPath = <<"START", "DEVICE_LOADED", "SESSION_READY", "CHALLENGE_READY",
                       "LICENSE_FETCHED", "KEYS_PARSED", "DONE">>
       /\ Count("post_cert") = 0 /\ Count("set_service_certificate") = 0
       /\ Len(KeyLines) = Len(keys)
       /\ licence = Bytes(2) =>
             KeyLines = <<Info(<<"[", "CONTENT", "]", " ", "1", "1", "2", "2", ":",
                                 "a", "a", "b", "b">>)>>

\* C4: set_service_certificate is called if and only if privacy is true and the
\* certificate fetch returned 200 (the call follows as soon as the status is
\* checked).
C4_SetCertificateIff ==
    /\ \A i \in CallsOf("set_service_certificate") :
          /\ privacy
          /\ \E j \in CallsOf("post_cert") : j < i /\ calls[j].ret.status_code = HTTP_OK
    /\ ( /\ privacy
         /\ \E j \in CallsOf("post_cert") : calls[j].ret.status_code = HTTP_OK
         /\ pc \notin {"CERT_PENDING", "CERT_FETCHED"} )
       => Count("set_service_certificate") = 1

C4_Witness ==
    /\ Terminated
    /\ privacy
    /\ Count("set_service_certificate") = 1
    /\ \E j \in CallsOf("post_cert") : calls[j].ret.status_code = HTTP_OK

\* C5: the body of the license POST is the value get_license_challenge
\* returned, and the argument of parse_license is the body of the response to
\* that POST.
C5_NoTransformation ==
    /\ \A i \in CallsOf("post_license") :
          \E j \in CallsOf("get_license_challenge") :
             j < i /\ calls[j].ok /\ calls[i].arg.data = calls[j].ret
    /\ \A i \in CallsOf("parse_license") :
          \E j \in CallsOf("post_license") :
             j < i /\ calls[i].arg = calls[j].ret.content

C5_Witness ==
    /\ Count("parse_license") = 1
    /\ \E i \in CallsOf("post_license") :
          calls[i].arg.data.kind = "LicenseRequest" /\ calls[i].ret.content = Bytes(3)

\* C6: when the license exchange returned a status other than 200,
\* parse_license is never called and no key line is logged.
C6_NoParseOnLicenceFailure ==
    (\E i \in CallsOf("post_license") : calls[i].ret.status_code # HTTP_OK)
    => Count("parse_license") = 0 /\ KeyLines = <<>>

C6_Witness ==
    /\ Terminated
    /\ \E i \in CallsOf("post_license") :
          calls[i].ret.status_code = 500 /\ calls[i].ret.content = Bytes(2)

\* C7: when the certificate exchange returned a status other than 200,
\* set_service_certificate, get_license_challenge, the license exchange,
\* parse_license and the key output are all skipped.
C7_NothingAfterCertFailure ==
    (\E i \in CallsOf("post_cert") : calls[i].ret.status_code # HTTP_OK)
    => /\ Count("set_service_certificate") = 0
       /\ Count("get_license_challenge") = 0
       /\ Count("post_license") = 0
       /\ Count("parse_license") = 0
       /\ KeyLines = <<>>

C7_Witness ==
    /\ Terminated
    /\ \E i \in CallsOf("post_cert") :
          calls[i].ret.status_code = 403 /\ calls[i].ret.content = Bytes(1)

C9_Ordering ==
    /\ \A i \in CallsOf("post_cert"), j \in CallsOf("get_license_challenge") : i < j
    /\ \A i \in CallsOf("post_license") :
          \E j \in CallsOf("get_license_challenge") : j < i /\ calls[j].ok

C9_Witness ==
    /\ Count("post_cert") = 1
    /\ Count("get_license_challenge") = 1
    /\ Count("post_license") = 1

\* C10 (as stated): every finished invocation called get_license_challenge
\* exactly once and parse_license exactly once.
C10_ExactlyOnce ==
    Terminated => Count("get_license_challenge") = 1 /\ Count("parse_license") = 1

\* C10 (amended): get_license_challenge and parse_license are each called at
\* most once, and an invocation that ends DONE has made exactly one successful
\* call of each.
C10_AtMostOnce ==
    /\ Count("get_license_challenge") <= 1
    /\ Count("parse_license") <= 1
    /\ pc = "DONE" =>
          /\ Cardinality({i \in CallsOf("get_license_challenge") : calls[i].ok}) = 1
          /\ Cardinality({i \in CallsOf("parse_license") : calls[i].ok}) = 1

C10_Witness ==
    pc = "DONE" /\ Count("get_license_challenge") = 1 /\ Count("parse_license") = 1

\* C11: set_service_certificate is called at most once in an invocation, and
\* never after get_license_challenge has been called.
C11_CertificateSetOnceBeforeChallenge ==
    /\ Count("set_service_certificate") <= 1
    /\ \A i \in CallsOf("set_service_certificate"), j \in CallsOf("get_license_challenge") :
          i < j

C11_Witness ==
    /\ Terminated
    /\ \E i \in CallsOf("set_service_certificate") : calls[i].ok
    /\ Count("get_license_challenge") = 1

PendingExchange == {"CERT_PENDING", "LICENSE_PENDING"}

\* the response the invocation is looking at while an exchange is pending
PendingResponse == IF pc = "CERT_PENDING" THEN service_cert ELSE licence

\* C12: ABORTED_TRANSPORT is entered only from a pending certificate or license
\* fetch whose response has a status other than 200; in that state the failed
\* exchange is the last thing that ran, no key line has been emitted, and no
\* further step changes anything.
C12_AbortedTransport ==
    /\ [](pc = "ABORTED_TRANSPORT" =>
            /\ KeyLines = <<>>
            /\ IsPost(calls[Len(calls)])
            /\ calls[Len(calls)].ret.status_code # HTTP_OK
            /\ path[Len(path) - 1] \in PendingExchange)
    /\ [][ /\ (pc' = "ABORTED_TRANSPORT" /\ pc # "ABORTED_TRANSPORT") =>
                (pc \in PendingExchange /\ PendingResponse.status_code # HTTP_OK)
           /\ pc = "ABORTED_TRANSPORT" => UNCHANGED vars ]_vars

C12_Witness ==
    /\ pc = "ABORTED_TRANSPORT"
    /\ Count("post_license") = 1
    /\ calls[Len(calls)].ret.status_code = 500

\* C13: a capability call that fails is not caught: the invocation is then in
\* the state RAISED, which carries the exception and is neither DONE nor
\* ABORTED_TRANSPORT (both of which carry none); the failing call is the last
\* call or exchange made, it logs nothing, and no step runs after it.
C13_CapabilityFailurePropagates ==
    /\ [](\A i \in DOMAIN calls :
             ~calls[i].ok => (pc = "RAISED" /\ i = Len(calls) /\ exc # "None"))
    /\ [](pc \in {"DONE", "ABORTED_TRANSPORT"} => exc = "None")
    /\ [][ /\ (Len(calls') > Len(calls) /\ ~calls'[Len(calls')].ok) =>
                (pc' = "RAISED" /\ log' = log)
           /\ pc = "RAISED" => UNCHANGED vars ]_vars

C13_Witness ==
    /\ pc = "RAISED"
    /\ exc = "LicenseParseError"
    /\ calls[Len(calls)].op = "parse_license"
    /\ Count("post_license") = 1

IsError(r) == r.level = "error"

\* the failure records logged so far
ErrorRecords == SelectSeq(log, IsError)

\* the exchanges whose status has been checked and was not 200
FailedExchanges ==
    {i \in DOMAIN calls :
        /\ IsPost(calls[i])
        /\ calls[i].ret.status_code # HTTP_OK
        /\ ~(i = Len(calls) /\ pc \in PendingExchange)}

\* C14: once an exchange has returned a status other than 200, exactly one
\* failure record is logged, carrying that status and the text of that
\* response, no key line is emitted, and the invocation has returned without an
\* exception, as a run that ends DONE does and a capability failure does not;
\* no failure record is logged otherwise.
C14_TransportFailureLogged ==
    /\ \A i \in FailedExchanges :
          /\ pc = "ABORTED_TRANSPORT"
          /\ exc = "None"
          /\ KeyLines = <<>>
          /\ Len(ErrorRecords) = 1
          /\ Len(ErrorRecords[1].msg) = 3
          /\ ErrorRecords[1].msg[2] = calls[i].ret.status_code
          /\ ErrorRecords[1].msg[3] = Text(calls[i].ret.content)
    /\ ErrorRecords # <<>> => FailedExchanges # {}
    /\ pc = "DONE" => exc = "None"
    /\ pc = "RAISED" => exc # "None"

C14_Witness ==
    /\ pc = "ABORTED_TRANSPORT"
    /\ \E i \in CallsOf("post_license") :
          calls[i].ret.status_code = 500 /\ calls[i].ret.content = Bytes(3)
    /\ Len(ErrorRecords) = 1

\* the value of one hexadecimal digit
HexValue(d) == CHOOSE n \in 0..15 : HexDigits[n + 1] = d

\* the bytes a string of hexadecimal digits stands for
RECURSIVE Unhex(_)
Unhex(ds) ==
    IF Len(ds) < 2 THEN <<>>
    ELSE <<16 * HexValue(ds[1]) + HexValue(ds[2])>> \o Unhex(SubSeq(ds, 3, Len(ds)))

\* line m reads "[<type>] <kid in hex>:<key in hex>" for key k
LineCarries(m, k) ==
    LET nk == 2 * Len(k.kid) IN
    /\ Len(m) = 4 + nk + 1 + 2 * Len(k.key)
    /\ m[1] = "[" /\ m[2] = k.type /\ m[3] = "]" /\ m[4] = " "
    /\ Unhex(SubSeq(m, 5, 4 + nk)) = k.kid
    /\ m[5 + nk] = ":"
    /\ Unhex(SubSeq(m, 6 + nk, Len(m))) = k.key

\* C15: after parse_license succeeded, the keys reported are the parsed
\* sequence: line i carries type, identifier and material of key i, the loop
\* has emitted the lines of the keys before idx, and a run that ends DONE has
\* emitted exactly Len(keys) lines, repeated keys included.
C15_OneLinePerKeyInOrder ==
    /\ pc \in {"KEYS_PARSED", "DONE"} =>
          /\ \E i \in CallsOf("parse_license") : calls[i].ok /\ keys = calls[i].ret
          /\ Len(KeyLines) = (IF pc = "DONE" THEN Len(keys) ELSE idx - 1)
          /\ \A i \in DOMAIN KeyLines : LineCarries(KeyLines[i].msg, keys[i])
    /\ pc \notin {"KEYS_PARSED", "DONE"} => KeyLines = <<>>

C15_Witness ==
    /\ pc = "DONE"
    /\ Len(keys) = 3
    /\ keys[1] = keys[3]
    /\ keys[1] # keys[2]
    /\ Len(KeyLines) = 3

\* C16: nothing is retried: every capability call and each of the two
\* exchanges is made at most once in an invocation, whatever it returned.
C16_NoRetry ==
    \A i, j \in DOMAIN calls : calls[i].op = calls[j].op => i = j

C16_Witness ==
    /\ pc = "ABORTED_TRANSPORT"
    /\ Count("post_cert") = 1
    /\ calls[Len(calls)].ret.status_code = 403

KeysReported ==
    pc = "DONE" /\ exc = "None" /\ ErrorRecords = <<>> /\ Len(KeyLines) = Len(keys)

TransportAborted ==
    pc = "ABORTED_TRANSPORT" /\ exc = "None" /\ Len(ErrorRecords) = 1

CapabilityFailed ==
    pc = "RAISED" /\ exc # "None" /\ ErrorRecords = <<>>

\* C17: every invocation eventually ends; it ends with the keys reported
\* (DONE), or aborted by a failed exchange (ABORTED_TRANSPORT), or by the
\* exception of a capability call, and then stays as it is; no position of the
\* flow is taken twice.
C17_Terminates ==
    /\ <>Terminated
    /\ [](Terminated => (KeysReported \/ TransportAborted \/ CapabilityFailed))
    /\ [](\A i, j \in DOMAIN path : path[i] = path[j] => i = j)
    /\ [][Terminated => UNCHANGED vars]_vars

C17_Witness ==
    /\ KeysReported
    /\ Len(keys) = 2
    /\ Len(path) = 11

\* C18: the body of the certificate POST is the session's certificate
\* challenge, the argument of set_service_certificate is the body of the
\* response to that POST, and every POST of the invocation goes to the SERVER
\* argument.
C18_CertificateExchangePayloads ==
    /\ \A i \in CallsOf("post_cert") :
          calls[i].arg.data = cdm.service_certificate_challenge
    /\ \A i \in CallsOf("set_service_certificate") :
          \E j \in CallsOf("post_cert") : j < i /\ calls[i].arg = calls[j].ret.content
    /\ \A i \in DOMAIN calls : IsPost(calls[i]) => calls[i].arg.url = server

C18_Witness ==
    /\ Count("post_cert") = 1
    /\ Count("post_license") = 1
    /\ \E i \in CallsOf("set_service_certificate") : calls[i].ok /\ calls[i].arg = Bytes(2)
    /\ server = "http://other/license"

====
